---- MODULE Spec2Model ----
(***************************************************************************)
(* A model of the matching / grouping / parallel subsystem of the          *)
(* cifa_cleaning package (src/src/cifa_cleaning/matching.py, parallel.py). *)
(*                                                                         *)
(* SpecParent:  the parent selector (assign_parent_cifas) followed by the   *)
(*              cross-reference applier (apply_cross_references).          *)
(* SpecGroups:  the group builder (group_similar_records, compare_group)   *)
(*              and the catalog matching routines, run row by row.         *)
(* SpecParallel: parallel_match and parallel_grouping on a worker pool.    *)
(* SpecShortlist: the matching functions on tables longer than the         *)
(*              shortlist of process.extract.                              *)
(* SpecIngest:  preprocess_data (src/src/cifa_cleaning/ingest.py).         *)
(* SpecParallelFair: the worker pool under fair scheduling.                *)
(* SpecAcyclic: the parent selector on tables with one order of the        *)
(*              records shared by all groups.                              *)
(***************************************************************************)
EXTENDS Integers, Sequences, FiniteSets, Bags, TLC

VARIABLES
    pc,               \* position of the caller / of the running function
    data,             \* the record table (a pandas DataFrame): a sequence of rows
    has_last_update,  \* whether the table has an 'item_last_update' column
    parent_mapping,   \* assign_parent_cifas: the dict child cifa -> parent cifa
    gi,               \* assign_parent_cifas: number of similarity groups consumed
    candidates,       \* assign_parent_cifas: cifa numbers of `candidates`, post-sort
    parent_cifa,      \* assign_parent_cifas: the parent chosen for the last group
    mapping_before,   \* history: parent_mapping as it was before the last group
    referenced,       \* history: the candidate ids the groups consumed so far named
    fn,               \* the matching function being run
    small_list,       \* the small list / chunk matched against the catalog `data`
    key_columns,      \* the key columns handed to the group builder
    columns,          \* the columns of the table `data`
    threshold,        \* the similarity threshold (0..100)
    ri,               \* number of input rows the running loop has consumed
    results,          \* the list `results` of the running function
    log,              \* the warnings logged so far
    returned,         \* the value the function returned
    num_workers,      \* num_chunks of parallel_match / num_processes of parallel_grouping
    data_copy,        \* parallel_grouping: its private copy of the table
    tasks,            \* the argument list handed to pool.starmap, one task per entry
    status,           \* per task: "pending", "running", "done" or "raised"
    starts,           \* per task: how many times a worker has started it
    slots,            \* the pool's result list, one slot per task
    failure,          \* the task whose exception the pool stored (0: none)
    overtaken         \* whether a task has finished before an earlier-submitted one

parentVars == <<has_last_update, parent_mapping, gi, candidates, parent_cifa,
                mapping_before, referenced>>
matchVars == <<fn, small_list, key_columns, columns, threshold, ri, results, log, returned>>
poolVars == <<num_workers, data_copy, tasks, status, starts, slots, failure, overtaken>>

vars == <<pc, data, parentVars, matchVars, poolVars>>

----------------------------------------------------------------------------
(* Bounds of the model *)

\* largest number of similarity groups handed to assign_parent_cifas
MaxGroups == 2

----------------------------------------------------------------------------
(* Values *)

\* pandas' missing value (NaN / None) in an id or timestamp cell
NaN == 0

\* the cifa numbers of the rows of the record table handed to the parent
\* selector: row i carries cifa number i (unique ids)
Cifas == {1, 2, 3}
\* ids a similarity group may reference: the table's, and one id of no record
GroupCifas == Cifas \cup {Cardinality(Cifas) + 1}

MappedSources == {"description", "unmapped"}
LastUpdates == {1, 2}

Range(s) == {s[i] : i \in DOMAIN s}

\* the row of `data` carrying the cifa number c (ids are unique)
RowOf(c) == CHOOSE i \in DOMAIN data : data[i].cifa_number = c

----------------------------------------------------------------------------
(* Text cells and the similarity scorers (rapidfuzz.fuzz, called at         *)
(* matching.py:44, 127, 169 and 204).  A string is a sequence of one-       *)
(* character strings; a score is kept in hundredths of a point (0..10000)   *)
(* so that scores of short strings compare exactly as the floats do.        *)

\* a missing text cell (NaN / None): no string, and unequal to every string
NoText == <<"NaN">>

\* the code points of the characters the modelled strings use
CodePoint ==
    (" " :> 32) @@ ("1" :> 49) @@ ("A" :> 65) @@ ("B" :> 66) @@ ("C" :> 67)
    @@ ("P" :> 80) @@ ("Q" :> 81) @@ ("R" :> 82)

\* Python's < on strings: lexicographic by code point
RECURSIVE StrLess(_, _)
StrLess(a, b) ==
    IF b = <<>> THEN FALSE
    ELSE IF a = <<>> THEN TRUE
    ELSE IF CodePoint[Head(a)] # CodePoint[Head(b)]
         THEN CodePoint[Head(a)] < CodePoint[Head(b)]
    ELSE StrLess(Tail(a), Tail(b))

\* str.split(): the maximal runs of non-blank characters, in order
RECURSIVE SplitFrom(_, _)
SplitFrom(s, word) ==
    IF s = <<>> THEN (IF word = <<>> THEN <<>> ELSE <<word>>)
    ELSE IF Head(s) = " "
         THEN (IF word = <<>> THEN <<>> ELSE <<word>>) \o SplitFrom(Tail(s), <<>>)
    ELSE SplitFrom(Tail(s), Append(word, Head(s)))

Split(s) == SplitFrom(s, <<>>)

\* sorted(tokens) for a set of distinct tokens
RECURSIVE SortedTokens(_)
SortedTokens(tokens) ==
    IF tokens = {} THEN <<>>
    ELSE LET least == CHOOSE t \in tokens : \A u \in tokens \ {t} : StrLess(t, u)
         IN <<least>> \o SortedTokens(tokens \ {least})

\* sorted(list of tokens), duplicates kept
RECURSIVE SortedList(_)
SortedList(list) ==
    IF list = <<>> THEN <<>>
    ELSE LET least == CHOOSE i \in DOMAIN list :
                          \A j \in DOMAIN list : ~StrLess(list[j], list[i])
             rest == [k \in 1..(Len(list) - 1) |-> IF k < least THEN list[k] ELSE list[k + 1]]
         IN <<list[least]>> \o SortedList(rest)

\* " ".join(tokens)
RECURSIVE Join(_)
Join(tokens) ==
    IF tokens = <<>> THEN <<>>
    ELSE IF Len(tokens) = 1 THEN tokens[1]
    ELSE tokens[1] \o <<" ">> \o Join(Tail(tokens))

\* length of a longest common subsequence
RECURSIVE LCS(_, _)
LCS(a, b) ==
    IF a = <<>> \/ b = <<>> THEN 0
    ELSE IF Head(a) = Head(b) THEN 1 + LCS(Tail(a), Tail(b))
    ELSE LET x == LCS(Tail(a), b)
             y == LCS(a, Tail(b))
         IN IF x >= y THEN x ELSE y

\* Indel distance: insertions and deletions turning a into b
IndelDistance(a, b) == Len(a) + Len(b) - 2 * LCS(a, b)

\* 100 - 100 * dist / lensum, in hundredths; 100 when both strings are empty
NormDistance(dist, lensum) ==
    IF lensum = 0 THEN 10000 ELSE (10000 * (lensum - dist)) \div lensum

\* fuzz.ratio
Ratio(a, b) == NormDistance(IndelDistance(a, b), Len(a) + Len(b))

Max2(x, y) == IF x >= y THEN x ELSE y

\* fuzz.token_sort_ratio: the ratio of the two strings with their tokens sorted
TokenSortRatio(a, b) ==
    IF a = NoText \/ b = NoText THEN 0
    ELSE Ratio(Join(SortedList(Split(a))), Join(SortedList(Split(b))))

\* fuzz.token_set_ratio
TokenSetRatio(a, b) ==
    IF a = NoText \/ b = NoText THEN 0
    ELSE LET tokens_a == Range(Split(a))
             tokens_b == Range(Split(b))
             intersect == tokens_a \cap tokens_b
             diff_ab == tokens_a \ tokens_b
             diff_ba == tokens_b \ tokens_a
             diff_ab_joined == Join(SortedTokens(diff_ab))
             diff_ba_joined == Join(SortedTokens(diff_ba))
             ab_len == Len(diff_ab_joined)
             ba_len == Len(diff_ba_joined)
             sect_len == Len(Join(SortedTokens(intersect)))
             sep == IF sect_len # 0 THEN 1 ELSE 0
             sect_ab_len == sect_len + sep + ab_len
             sect_ba_len == sect_len + sep + ba_len
             result == NormDistance(IndelDistance(diff_ab_joined, diff_ba_joined),
                                    sect_ab_len + sect_ba_len)
             sect_ab_ratio == NormDistance(sep + ab_len, sect_len + sect_ab_len)
             sect_ba_ratio == NormDistance(sep + ba_len, sect_len + sect_ba_len)
         IN IF tokens_a = {} \/ tokens_b = {} THEN 0
            ELSE IF intersect # {} /\ (diff_ab = {} \/ diff_ba = {}) THEN 10000
            ELSE IF sect_len = 0 THEN result
            ELSE Max2(result, Max2(sect_ab_ratio, sect_ba_ratio))

Score(scorer, a, b) ==
    IF scorer = "token_set_ratio" THEN TokenSetRatio(a, b) ELSE TokenSortRatio(a, b)

\* an integer threshold (0..100) on the scale of the scores
Cutoff(thr) == 100 * thr

----------------------------------------------------------------------------
(* process.extract and the group builder, matching.py:24-54 and 183-215 *)

\* limit=10 of group_similar_records, limit=5 of compare_group and of the
\* catalog matching, and the default threshold of process_chunk
GroupLimit == 10
CompareLimit == 5
MatchLimit == 5
DefaultThreshold == 90

\* the choices that are not missing, scored against the query, in choice order:
\* (choice, score, index of the choice)
RECURSIVE ScoredFrom(_, _, _, _)
ScoredFrom(query, choices, scorer, i) ==
    IF i > Len(choices) THEN <<>>
    ELSE (IF choices[i] = NoText THEN <<>>
          ELSE <<[choice |-> choices[i], score |-> Score(scorer, query, choices[i]),
                  index |-> i]>>)
         \o ScoredFrom(query, choices, scorer, i + 1)

\* the `limit` best of the scored choices, best first; equal scores keep the
\* order of the choices
RECURSIVE Best(_, _)
Best(scored, limit) ==
    IF scored = <<>> \/ limit = 0 THEN <<>>
    ELSE LET top == CHOOSE i \in DOMAIN scored :
                       /\ \A j \in DOMAIN scored : scored[j].score <= scored[i].score
                       /\ \A j \in 1..(i - 1) : scored[j].score < scored[i].score
             rest == [k \in 1..(Len(scored) - 1) |-> IF k < top THEN scored[k] ELSE scored[k + 1]]
         IN <<scored[top]>> \o Best(rest, limit - 1)

\* process.extract(query, choices, scorer=..., limit=...): no match for a
\* missing query
ExtractUnlimited(query, choices, scorer, limit) ==
    IF query = NoText THEN <<>>
    ELSE Best(ScoredFrom(query, choices, scorer, 1), Len(choices))
Extract(query, choices, scorer, limit) ==
    IF query = NoText THEN <<>>
    ELSE Best(ScoredFrom(query, choices, scorer, 1), limit)

\* process.extract(..., score_cutoff=threshold, limit=...): choices scoring
\* below the cutoff are dropped before the best are taken
ExtractCutoffNone(query, choices, scorer, cutoff, limit) ==
    Extract(query, choices, scorer, limit)
ExtractCutoff(query, choices, scorer, cutoff, limit) ==
    IF query = NoText THEN <<>>
    ELSE LET AtLeast(m) == m.score >= cutoff
         IN Best(SelectSeq(ScoredFrom(query, choices, scorer, 1), AtLeast), limit)

\* data[key_col].tolist()
Column(table, key_col) == [i \in DOMAIN table |-> table[i][key_col]]

\* lines 46-47 / 205-208: the extracted matches that meet the threshold, as
\* (cifa number of the matched row, score)
KeepMatchesAll(extracted, pool, thr) ==
    [i \in DOMAIN extracted |-> <<pool[extracted[i].index].cifa_number, extracted[i].score>>]
KeepMatches(extracted, pool, thr) ==
    LET Meets(m) == m.score >= Cutoff(thr)
        kept == SelectSeq(extracted, Meets)
    IN [i \in DOMAIN kept |-> <<pool[kept[i].index].cifa_number, kept[i].score>>]

\* lines 38-47 / 199-208: the matches of one row over the key cols, in the
\* order of the key cols; a key column the table lacks is skipped
RECURSIVE MatchesOf(_, _, _, _, _, _, _)
MatchesOf(row, pool, key_cols, cols, thr, scorer, limit) ==
    IF key_cols = <<>> THEN <<>>
    ELSE LET key_col == Head(key_cols)
             this == IF key_col \notin cols THEN <<>>
                     ELSE KeepMatches(Extract(row[key_col], Column(pool, key_col), scorer, limit),
                                      pool, thr)
         IN this \o MatchesOf(row, pool, Tail(key_cols), cols, thr, scorer, limit)

\* lines 50-52 / 211-213: unique_matches[cifa] = max(score, unique_matches.get(cifa, 0)),
\* as the list of the dict's items (in order of first insertion)
RECURSIVE UniqueMatchesInto(_, _)
UniqueMatchesInto(unique, matches) ==
    IF matches = <<>> THEN unique
    ELSE LET cifa == Head(matches)[1]
             score == Head(matches)[2]
             at == {i \in DOMAIN unique : unique[i][1] = cifa}
             next == IF at = {} THEN Append(unique, <<cifa, Max2(score, 0)>>)
                     ELSE [i \in DOMAIN unique |->
                              IF i \in at THEN <<cifa, Max2(score, unique[i][2])>>
                              ELSE unique[i]]
         IN UniqueMatchesInto(next, Tail(matches))

RECURSIVE UniqueMatchesLastInto(_, _)
UniqueMatchesLastInto(unique, matches) ==
    IF matches = <<>> THEN unique
    ELSE LET cifa == Head(matches)[1]
             score == Head(matches)[2]
             at == {i \in DOMAIN unique : unique[i][1] = cifa}
             next == IF at = {} THEN Append(unique, <<cifa, score>>)
                     ELSE [i \in DOMAIN unique |->
                              IF i \in at THEN <<cifa, score>> ELSE unique[i]]
         IN UniqueMatchesLastInto(next, Tail(matches))

UniqueMatchesLast(matches) == UniqueMatchesLastInto(<<>>, matches)
UniqueMatches(matches) == UniqueMatchesInto(<<>>, matches)

\* one iteration of the loop of line 36 of group_similar_records: the group of
\* one row against the whole table
GroupOfRow(row, table, key_cols, cols, thr) ==
    <<row.cifa_number,
      UniqueMatches(MatchesOf(row, table, key_cols, cols, thr,
                              "token_set_ratio", GroupLimit))>>

\* one iteration of the loop of line 197 of compare_group: the candidates come
\* from `data`, the table passed along with the group
CompareRow(row, table, key_cols, cols, thr) ==
    <<row.cifa_number,
      UniqueMatches(MatchesOf(row, table, key_cols, cols, thr,
                              "token_sort_ratio", CompareLimit))>>

\* compare_group(group, data, key_columns, threshold)
CompareGroup(group, table, key_cols, cols, thr) ==
    [i \in DOMAIN group |-> CompareRow(group[i], table, key_cols, cols, thr)]

\* group_similar_records(data, key_columns, threshold)
GroupSimilarRecords(table, key_cols, cols, thr) ==
    [i \in DOMAIN table |-> GroupOfRow(table[i], table, key_cols, cols, thr)]

----------------------------------------------------------------------------
(* assign_parent_cifas, matching.py:56-91 *)

\* data[data['cifa_number'].isin(candidate_cifas)]: the rows, in table order
RECURSIVE Isin(_, _)
Isin(rows, candidate_cifas) ==
    IF rows = <<>> THEN <<>>
    ELSE (IF Head(rows).cifa_number \in candidate_cifas THEN <<Head(rows)>> ELSE <<>>)
         \o Isin(Tail(rows), candidate_cifas)

\* a before b in descending order of the sort key; NaN keys go last
DescLeqAny(a, b) == TRUE
DescLeq(a, b) ==
    \/ b = NaN
    \/ a # NaN /\ a >= b

\* candidates.sort_values('item_last_update', ascending=False): the default
\* kind is quicksort, which is not stable, so rows with equal keys may come out
\* in any relative order.  The set of the orders the call can return.
RECURSIVE SortValues(_)
SortValues(rows) ==
    IF rows = <<>> THEN {<<>>}
    ELSE LET first == {i \in DOMAIN rows : \A j \in DOMAIN rows :
                          DescLeq(rows[i].item_last_update, rows[j].item_last_update)}
             Without(i) == [k \in 1..(Len(rows) - 1) |-> IF k < i THEN rows[k] ELSE rows[k + 1]]
         IN UNION {{<<rows[i]>> \o rest : rest \in SortValues(Without(i))} : i \in first}

\* candidates[(cross_reference.isna()) & (mapped_source != 'description')]
Eligible(row) == row.cross_reference = NaN /\ row.mapped_source # "description"

\* lines 81-87: the parent row of the (sorted, non-empty) candidates
SelectParentBroken(sorted) == sorted[1]
SelectParent(sorted) ==
    LET parent_candidate == SelectSeq(sorted, Eligible)
    IN IF parent_candidate = <<>> THEN sorted[1] ELSE parent_candidate[1]

\* lines 88-90: every candidate other than the parent is mapped to the parent
WriteChildrenNoGuard(mapping, sorted, parent) ==
    LET children == {sorted[i].cifa_number : i \in DOMAIN sorted}
    IN [k \in DOMAIN mapping \cup children |->
           IF k \in children THEN parent ELSE mapping[k]]
WriteChildrenKeepFirst(mapping, sorted, parent) ==
    LET children == {sorted[i].cifa_number : i \in DOMAIN sorted} \ {parent}
    IN [k \in DOMAIN mapping \cup children |->
           IF k \in DOMAIN mapping THEN mapping[k] ELSE parent]
WriteChildren(mapping, sorted, parent) ==
    LET children == {sorted[i].cifa_number : i \in DOMAIN sorted} \ {parent}
    IN [k \in DOMAIN mapping \cup children |->
           IF k \in children THEN parent ELSE mapping[k]]

\* line 70
AssignStart ==
    /\ pc = "start"
    /\ pc' = "assign"
    /\ parent_mapping' = <<>>
    /\ UNCHANGED <<data, has_last_update, gi, candidates, parent_cifa, mapping_before,
                   referenced, matchVars, poolVars>>

\* one iteration of the loop of line 72 over the next group (cifa, group).  The
\* anchor cifa and the scores are never read: the group acts through the set of
\* its candidate ids alone (lines 73-74), which may or may not hold its anchor.
AssignGroup ==
    /\ pc = "assign"
    /\ gi < MaxGroups
    /\ \E candidate_cifas \in SUBSET GroupCifas :
         /\ LET found == Isin(data, candidate_cifas)
            IN IF found = <<>>
               THEN \* line 75-76: continue
                    /\ candidates' = <<>>
                    /\ UNCHANGED <<parent_mapping, parent_cifa>>
               ELSE \E sorted \in (IF has_last_update THEN SortValues(found) ELSE {found}) :
                      LET parent == SelectParent(sorted).cifa_number
                      IN /\ candidates' = [i \in DOMAIN sorted |-> sorted[i].cifa_number]
                         /\ parent_cifa' = parent
                         /\ parent_mapping' = WriteChildren(parent_mapping, sorted, parent)
         /\ referenced' = referenced \cup candidate_cifas
    /\ mapping_before' = parent_mapping
    /\ gi' = gi + 1
    /\ UNCHANGED <<pc, data, has_last_update, matchVars, poolVars>>

\* line 91: the list of groups is exhausted; the locals of the call are gone
AssignReturn ==
    /\ pc = "assign"
    /\ pc' = "mapped"
    /\ candidates' = <<>>
    /\ parent_cifa' = NaN
    /\ mapping_before' = <<>>
    /\ UNCHANGED <<data, has_last_update, parent_mapping, gi, referenced, matchVars, poolVars>>

----------------------------------------------------------------------------
(* apply_cross_references, matching.py:93-103 *)

\* Series.map(dict): the dict's value for a key of the dict, NaN for any other
MapDictKeepOld(value, old, mapping) ==
    IF value \in DOMAIN mapping THEN mapping[value] ELSE old
MapDict(value, old, mapping) ==
    IF value \in DOMAIN mapping THEN mapping[value] ELSE NaN

\* line 102: data['cross_reference'] = data['cifa_number'].map(parent_mapping)
ApplyCrossReferences ==
    /\ pc = "mapped"
    /\ pc' = "applied"
    /\ data' = [i \in DOMAIN data |->
                  [data[i] EXCEPT !.cross_reference =
                      MapDict(data[i].cifa_number, data[i].cross_reference, parent_mapping)]]
    /\ UNCHANGED <<parentVars, matchVars, poolVars>>

----------------------------------------------------------------------------
(* The parent-selection pipeline on every small record table *)

\* no worker pool is involved
PoolIdle ==
    /\ num_workers = 0
    /\ data_copy = <<>>
    /\ tasks = <<>>
    /\ status = <<>>
    /\ starts = <<>>
    /\ slots = <<>>
    /\ failure = 0
    /\ overtaken = FALSE

\* no matching function is involved
MatchIdle ==
    /\ fn = "none"
    /\ small_list = <<>>
    /\ key_columns = <<>>
    /\ columns = {"cifa_number", "cross_reference", "mapped_source"}
                    \cup (IF has_last_update THEN {"item_last_update"} ELSE {})
    /\ threshold = DefaultThreshold
    /\ ri = 0
    /\ results = <<>>
    /\ log = <<>>
    /\ returned = <<>>
    /\ PoolIdle

\* the rows a table may hold for the cifa number c: its cross_reference is
\* unset or a stale reference to a record the table does not hold; without the
\* 'item_last_update' column every row's timestamp cell is missing
Rows(c, with_last_update) ==
    [cifa_number : {c}, cross_reference : {NaN} \cup (GroupCifas \ Cifas),
     mapped_source : MappedSources,
     item_last_update : IF with_last_update THEN LastUpdates ELSE {NaN}]

Tables(with_last_update) ==
    {t \in [Cifas -> UNION {Rows(c, with_last_update) : c \in Cifas}] :
        \A i \in Cifas : t[i].cifa_number = i}

InitParent ==
    /\ pc = "start"
    /\ has_last_update \in BOOLEAN
    /\ data \in Tables(has_last_update)
    /\ parent_mapping = <<>>
    /\ gi = 0
    /\ candidates = <<>>
    /\ parent_cifa = NaN
    /\ mapping_before = <<>>
    /\ referenced = {}
    /\ MatchIdle

NextParent ==
    \/ AssignStart
    \/ AssignGroup
    \/ AssignReturn
    \/ ApplyCrossReferences

SpecParent == InitParent /\ [][NextParent]_vars

----------------------------------------------------------------------------
(* Properties of the parent selector and of the cross-reference applier *)

\* the row of the table that carries the i-th post-sort candidate
CandidateRow(i) == data[RowOf(candidates[i])]

\* C1: the parent mapping never holds a self-loop, whatever number of groups
\* has been processed: no key k is mapped to k.
NoSelfLoop ==
    \A k \in DOMAIN parent_mapping : parent_mapping[k] # k

\* a group of several candidates, its parent among them, has been processed
\* after another group had already written the mapping
NoSelfLoopWitness ==
    /\ pc = "assign"
    /\ gi = MaxGroups
    /\ Len(candidates) >= 2
    /\ parent_cifa \in Range(candidates)
    /\ Cardinality(DOMAIN parent_mapping) = Len(candidates)

\* C5 (as claimed): apply_cross_references sets cross_reference to mapping[id]
\* for a record whose id is a key of the mapping and leaves the cross_reference
\* of every other record as it was before the call.
AbsentRecordsUnchanged ==
    [][(pc = "mapped" /\ pc' = "applied") =>
         \A i \in DOMAIN data :
            data'[i].cross_reference =
               IF data[i].cifa_number \in DOMAIN parent_mapping
               THEN parent_mapping[data[i].cifa_number]
               ELSE data[i].cross_reference]_vars

\* C8: after a group with at least one candidate record in the table, the
\* parent is the first candidate in post-sort order whose cross_reference is
\* unset and whose mapped_source is not 'description'; if there is none, it is
\* the first candidate in post-sort order; and every other candidate record of
\* the group is mapped to that parent.
ParentSelectionPolicy ==
    (pc = "assign" /\ candidates # <<>>) =>
        LET ok == {i \in DOMAIN candidates :
                      /\ CandidateRow(i).cross_reference = NaN
                      /\ CandidateRow(i).mapped_source # "description"}
            first == IF ok = {} THEN 1
                     ELSE CHOOSE i \in ok : \A j \in ok : i <= j
        IN /\ parent_cifa = candidates[first]
           /\ \A i \in DOMAIN candidates :
                 candidates[i] # parent_cifa =>
                    /\ candidates[i] \in DOMAIN parent_mapping
                    /\ parent_mapping[candidates[i]] = parent_cifa

\* the first candidate is unset but description-sourced, the second has a
\* cross_reference, and the third, the only one that satisfies both
\* conditions, is the parent of the other two
ParentSelectionWitness ==
    /\ pc = "assign"
    /\ Len(candidates) = 3
    /\ CandidateRow(1).cross_reference = NaN
    /\ CandidateRow(1).mapped_source = "description"
    /\ CandidateRow(2).cross_reference # NaN
    /\ CandidateRow(2).mapped_source # "description"
    /\ parent_cifa = candidates[3]
    /\ parent_mapping[candidates[1]] = parent_cifa
    /\ parent_mapping[candidates[2]] = parent_cifa

\* the ids of the records of the table
TableIds == {data[i].cifa_number : i \in DOMAIN data}

\* C12: every key and every value of the parent mapping is the id of a record
\* of the table, whatever ids the groups name, and once the mapping has been
\* applied to the table every record's cross_reference is null or the id of a
\* record of the table.
ReferentialIntegrity ==
    /\ DOMAIN parent_mapping \subseteq TableIds
    /\ Range(parent_mapping) \subseteq TableIds
    /\ pc = "applied" =>
          \A i \in DOMAIN data : data[i].cross_reference \in {NaN} \cup TableIds

\* the groups named an id that no record carries, and a record refers to its
\* parent, a record of the table whose own cross_reference is null
ReferentialIntegrityWitness ==
    /\ pc = "applied"
    /\ referenced \ TableIds # {}
    /\ \E i, j \in DOMAIN data :
          /\ data[i].cross_reference = NaN
          /\ data[i].cifa_number \in referenced
          /\ data[j].cross_reference = data[i].cifa_number

LastGroupWins ==
    [][(pc = "assign" /\ gi' = gi + 1) =>
         LET children == IF candidates' = <<>> THEN {}
                         ELSE Range(candidates') \ {parent_cifa'}
         IN /\ DOMAIN parent_mapping' = DOMAIN parent_mapping \cup children
            /\ \A k \in children : parent_mapping'[k] = parent_cifa'
            /\ \A k \in DOMAIN parent_mapping \ children :
                  parent_mapping'[k] = parent_mapping[k]]_vars

\* the last group has given a child a parent other than the one an earlier
\* group had given it, and the entry of a record that is not a child of the
\* last group is as the earlier group wrote it
LastGroupWinsWitness ==
    /\ pc = "assign"
    /\ candidates # <<>>
    /\ \E k \in DOMAIN mapping_before :
          /\ k \in Range(candidates)
          /\ mapping_before[k] # parent_cifa
          /\ parent_mapping[k] = parent_cifa
    /\ \E k \in DOMAIN mapping_before :
          /\ k \notin Range(candidates) \ {parent_cifa}
          /\ parent_mapping[k] = mapping_before[k]

----------------------------------------------------------------------------
(* The parent selector on tables whose candidates are ordered the same way   *)
(* in every group: no two records share a last-update value, or the table    *)
(* has no last-update column and the candidates stay in table order          *)

\* as many last-update values as the table has records
DistinctUpdates == 1..Cardinality(Cifas)

DistinctTables(with_last_update) ==
    {t \in [Cifas -> [cifa_number : Cifas,
                      cross_reference : {NaN} \cup (GroupCifas \ Cifas),
                      mapped_source : MappedSources,
                      item_last_update : IF with_last_update THEN DistinctUpdates
                                         ELSE {NaN}]] :
        /\ \A i \in Cifas : t[i].cifa_number = i
        /\ with_last_update =>
              \A i, j \in Cifas : i # j => t[i].item_last_update # t[j].item_last_update}

InitAcyclic ==
    /\ pc = "start"
    /\ has_last_update \in BOOLEAN
    /\ data \in DistinctTables(has_last_update)
    /\ parent_mapping = <<>>
    /\ gi = 0
    /\ candidates = <<>>
    /\ parent_cifa = NaN
    /\ mapping_before = <<>>
    /\ referenced = {}
    /\ MatchIdle

SpecAcyclic == InitAcyclic /\ [][NextParent]_vars

\* the id reached from k by following the mapping n times; NaN once the chain
\* has left the keys of the mapping
RECURSIVE Follow(_, _)
Follow(k, n) ==
    IF n = 0 THEN k
    ELSE IF k \notin DOMAIN parent_mapping THEN NaN
    ELSE Follow(parent_mapping[k], n - 1)

\* C22: on a table whose candidates are ordered consistently across groups,
\* the mapping holds no cycle of any length, whatever groups were processed:
\* following the mapping from a key never leads back to that key.
AcyclicMapping ==
    \A k \in DOMAIN parent_mapping :
        \A n \in 1..Cardinality(DOMAIN parent_mapping) : Follow(k, n) # k

\* a chain: overlapping groups have mapped a child to a parent that is itself
\* mapped to another parent
AcyclicMappingWitness ==
    /\ pc = "assign"
    /\ gi = MaxGroups
    /\ \E k \in DOMAIN parent_mapping :
          /\ parent_mapping[k] \in DOMAIN parent_mapping
          /\ parent_mapping[parent_mapping[k]] \notin {k, parent_mapping[k]}
          /\ mapping_before # parent_mapping

----------------------------------------------------------------------------
(* The catalog matching routines, matching.py:105-181 *)

\* lines 166-180: the result rows of one row of the chunk
ChunkRow(row, catalog, thr) ==
    LET part_number == row.mfg_part_number
        matches == ExtractCutoff(part_number, Column(catalog, "mfg_part_number"),
                                 "token_sort_ratio", Cutoff(thr), MatchLimit)
    IN [i \in DOMAIN matches |->
           [input_part_number |-> part_number,
            matched_part_number |-> matches[i].choice,
            cifa_number |-> catalog[matches[i].index].cifa_number,
            similarity_score |-> matches[i].score]]

\* process_chunk(chunk, catalog, threshold): the rows of the result frame
RECURSIVE ProcessChunk(_, _, _)
ProcessChunk(chunk, catalog, thr) ==
    IF chunk = <<>> THEN <<>>
    ELSE ChunkRow(Head(chunk), catalog, thr) \o ProcessChunk(Tail(chunk), catalog, thr)

\* line 121: the values of small_list.set_index('mfg_part_number')
\* ['item_description'].to_dict(); a repeated part number keeps its last row
SmallListDescriptions(small) ==
    {small[i].item_description : i \in
        {k \in DOMAIN small : \A j \in DOMAIN small :
            small[j].mfg_part_number = small[k].mfg_part_number => j <= k}}

\* lines 124-144: the result rows of one part number of the small list; a match
\* whose catalog description is a description of the small list is skipped
FuzzyRow(row, small, catalog, thr) ==
    LET NotListed(r) == catalog[r.index].item_description \notin SmallListDescriptions(small)
        part_number == row.mfg_part_number
        matches == SelectSeq(ExtractCutoff(part_number, Column(catalog, "mfg_part_number"),
                                           "token_sort_ratio", Cutoff(thr), MatchLimit),
                             NotListed)
    IN [i \in DOMAIN matches |->
           [input_part_number |-> part_number,
            matched_part_number |-> matches[i].choice,
            cifa_number |-> catalog[matches[i].index].cifa_number,
            similarity_score |-> matches[i].score]]

----------------------------------------------------------------------------
(* The matching functions run row by row on every small input *)

\* largest number of rows of a small list
MaxRows == 2

S_AB == <<"A", "B">>
S_ABC == <<"A", "B", "C">>
S_ABC1 == <<"A", "B", "C", "1">>
D_PQ == <<"P", " ", "Q">>
D_QP == <<"Q", " ", "P">>
D_R == <<"R">>

PartNumbers == {NoText, S_AB, S_ABC, S_ABC1}
Descriptions == {D_PQ, D_QP, D_R}
CatalogPartNumbers == {NoText, S_ABC, S_ABC1}
CatalogDescriptions == {D_PQ, D_R}
SmallPartNumbers == {NoText, S_AB, S_ABC}
Thresholds == {80, 90}

\* the row positions of the table handed to the group builder, and of a catalog
BuilderRows == {1, 2, 3}
CatalogRows == {1, 2}

\* the cifa number of the row at position i of a text table (unique ids)
TextCifa(i) == 100 + i

TextColumns == {"cifa_number", "mfg_part_number", "item_description"}

TextTables(rows, part_numbers, descriptions) ==
    {t \in [rows -> [cifa_number : {TextCifa(i) : i \in rows},
                     mfg_part_number : part_numbers,
                     item_description : descriptions]] :
        \A i \in rows : t[i].cifa_number = TextCifa(i)}

SmallLists ==
    UNION {[1..n -> [mfg_part_number : SmallPartNumbers,
                     item_description : CatalogDescriptions]] : n \in 0..MaxRows}

\* the key columns asked for; the tables have no 'manufacturer_name' column
KeyColumnLists ==
    {<<"mfg_part_number">>,
     <<"mfg_part_number", "item_description">>,
     <<"item_description", "mfg_part_number">>,
     <<"manufacturer_name", "mfg_part_number">>,
     <<"manufacturer_name">>}

ParentIdle ==
    /\ has_last_update = FALSE
    /\ parent_mapping = <<>>
    /\ gi = 0
    /\ candidates = <<>>
    /\ parent_cifa = NaN
    /\ mapping_before = <<>>
    /\ referenced = {}

GroupBuilders == {"group_similar_records", "compare_group"}
CatalogMatchers == {"process_chunk", "fuzzy_match_with_scores"}

InitGroups ==
    /\ pc = "loop"
    /\ fn \in GroupBuilders \cup CatalogMatchers
    /\ IF fn \in GroupBuilders
       THEN /\ data \in TextTables(BuilderRows, PartNumbers, Descriptions)
            /\ small_list = <<>>
            /\ key_columns \in KeyColumnLists
       ELSE /\ data \in TextTables(CatalogRows, CatalogPartNumbers, CatalogDescriptions)
            /\ small_list \in SmallLists
            /\ key_columns = <<>>
    /\ columns = TextColumns
    /\ threshold \in Thresholds
    /\ ri = 0
    /\ results = <<>>
    /\ log = <<>>
    /\ returned = <<>>
    /\ ParentIdle
    /\ PoolIdle

\* line 40: one warning for each key column the table lacks
MissingColumns(key_cols, cols) ==
    LET Missing(c) == c \notin cols IN SelectSeq(key_cols, Missing)

\* lines 53 and 214: results.append((row['cifa_number'], list(unique_matches.items())))
AppendGroupNonEmpty(list, group) ==
    IF group[2] = <<>> THEN list ELSE Append(list, group)
AppendGroup(list, group) == Append(list, group)

\* one iteration of the loop of line 36
GroupSimilarStep ==
    /\ pc = "loop" /\ fn = "group_similar_records"
    /\ ri < Len(data)
    /\ results' = AppendGroup(results,
                               GroupOfRow(data[ri + 1], data, key_columns, columns, threshold))
    /\ log' = log \o MissingColumns(key_columns, columns)
    /\ ri' = ri + 1
    /\ UNCHANGED <<pc, data, parentVars, poolVars, fn, small_list, key_columns, columns, threshold,
                   returned>>

\* one iteration of the loop of line 197, the group being the whole table
CompareGroupStep ==
    /\ pc = "loop" /\ fn = "compare_group"
    /\ ri < Len(data)
    /\ results' = AppendGroup(results,
                               CompareRow(data[ri + 1], data, key_columns, columns, threshold))
    /\ ri' = ri + 1
    /\ UNCHANGED <<pc, data, parentVars, poolVars, fn, small_list, key_columns, columns, threshold,
                   log, returned>>

\* one iteration of the loop of line 163
ProcessChunkStep ==
    /\ pc = "loop" /\ fn = "process_chunk"
    /\ ri < Len(small_list)
    /\ results' = results \o ChunkRow(small_list[ri + 1], data, threshold)
    /\ ri' = ri + 1
    /\ UNCHANGED <<pc, data, parentVars, poolVars, fn, small_list, key_columns, columns, threshold,
                   log, returned>>

\* one iteration of the loop of line 123
FuzzyMatchStep ==
    /\ pc = "loop" /\ fn = "fuzzy_match_with_scores"
    /\ ri < Len(small_list)
    /\ results' = results \o FuzzyRow(small_list[ri + 1], small_list, data, threshold)
    /\ ri' = ri + 1
    /\ UNCHANGED <<pc, data, parentVars, poolVars, fn, small_list, key_columns, columns, threshold,
                   log, returned>>

\* lines 54, 146, 181, 215: the loop is over, `results` is returned
MatchReturn ==
    /\ pc = "loop"
    /\ ri = (IF fn \in GroupBuilders THEN Len(data) ELSE Len(small_list))
    /\ pc' = "returned"
    /\ returned' = results
    /\ UNCHANGED <<data, parentVars, poolVars, fn, small_list, key_columns, columns, threshold,
                   ri, results, log>>

NextGroups ==
    \/ GroupSimilarStep
    \/ CompareGroupStep
    \/ ProcessChunkStep
    \/ FuzzyMatchStep
    \/ MatchReturn

SpecGroups == InitGroups /\ [][NextGroups]_vars

----------------------------------------------------------------------------
(* Properties of the group builder and of the catalog matching *)

ScorerOf(f) == IF f = "group_similar_records" THEN "token_set_ratio" ELSE "token_sort_ratio"
LimitOf(f) == IF f = "group_similar_records" THEN GroupLimit ELSE CompareLimit

\* the position in the table `data` of the row with cifa number c
PositionOf(c) == CHOOSE i \in DOMAIN data : data[i].cifa_number = c

\* the key columns the table has
PresentKeys == Range(key_columns) \cap columns

Reverse(seq) == [i \in DOMAIN seq |-> seq[Len(seq) + 1 - i]]

\* C6: every (candidate, score) pair of every group built so far, and every
\* result row of the catalog matching, has a score at or above the threshold;
\* a pair of records that scores below the threshold on every key attribute is
\* in no group.
ThresholdFiltering ==
    /\ fn \in GroupBuilders =>
         \A g \in DOMAIN results : \A m \in DOMAIN results[g][2] :
            LET anchor == data[g]
                cand == data[PositionOf(results[g][2][m][1])]
            IN /\ results[g][2][m][2] >= Cutoff(threshold)
               /\ \E k \in PresentKeys :
                     Score(ScorerOf(fn), anchor[k], cand[k]) >= Cutoff(threshold)
    /\ fn \in CatalogMatchers =>
         \A r \in DOMAIN results :
            /\ results[r].similarity_score >= Cutoff(threshold)
            /\ TokenSortRatio(results[r].input_part_number, results[r].matched_part_number)
                  >= Cutoff(threshold)

\* with threshold 90, two records that score 85.71 on the part number and 0 on
\* the description are compared on both attributes, and neither is in the
\* other's group, while each is in its own
ThresholdFilteringWitness ==
    /\ pc = "returned"
    /\ fn \in GroupBuilders
    /\ threshold = 90
    /\ PresentKeys = {"mfg_part_number", "item_description"}
    /\ \E i, j \in DOMAIN data :
         /\ Score(ScorerOf(fn), data[i].mfg_part_number, data[j].mfg_part_number) = 8571
         /\ Score(ScorerOf(fn), data[i].item_description, data[j].item_description) = 0
         /\ \E m \in DOMAIN returned[i][2] : returned[i][2][m][1] = data[i].cifa_number
         /\ \A m \in DOMAIN returned[i][2] : returned[i][2][m][1] # data[j].cifa_number
         /\ \A m \in DOMAIN returned[j][2] : returned[j][2][m][1] # data[i].cifa_number

\* the scores with which the row at position c passed the shortlist and the
\* threshold for the anchor, one per key attribute
PassingScores(f, anchor, c) ==
    {m.score : m \in
        {x \in UNION {Range(Extract(anchor[k], Column(data, k), ScorerOf(f), LimitOf(f))) :
                         k \in PresentKeys} :
            x.index = c /\ x.score >= Cutoff(threshold)}}

Maximum(set) == CHOOSE x \in set : \A y \in set : y <= x

\* C7: in every group each candidate id appears at most once, its score is the
\* maximum of the scores with which it passed the threshold over the key
\* attributes, and processing the attributes in the opposite order gives the
\* same candidates with the same scores.
GroupDeduplication ==
    fn \in GroupBuilders =>
      \A g \in DOMAIN results :
         LET items == results[g][2]
             other == IF fn = "group_similar_records"
                      THEN GroupOfRow(data[g], data, Reverse(key_columns), columns, threshold)
                      ELSE CompareRow(data[g], data, Reverse(key_columns), columns, threshold)
         IN /\ \A i, j \in DOMAIN items : i # j => items[i][1] # items[j][1]
            /\ \A i \in DOMAIN items :
                  LET passing == PassingScores(fn, data[g], PositionOf(items[i][1]))
                  IN passing # {} /\ items[i][2] = Maximum(passing)
            /\ Range(items) = Range(other[2])

\* a candidate passes on the description with 100 and then on the part number
\* with 85.71, and is in the group once, with 100
GroupDeduplicationWitness ==
    /\ pc = "returned"
    /\ fn \in GroupBuilders
    /\ key_columns = <<"item_description", "mfg_part_number">>
    /\ \E g \in DOMAIN returned : \E i \in DOMAIN returned[g][2] :
         /\ PassingScores(fn, data[g], PositionOf(returned[g][2][i][1])) = {8571, 10000}
         /\ returned[g][2][i][2] = 10000
         /\ \A j \in DOMAIN returned[g][2] :
               returned[g][2][j][1] = returned[g][2][i][1] => j = i

\* C13: the group builder emits exactly one group per input record, in input
\* order and anchored at that record's id: after n rows the result holds n
\* groups, the g-th anchored at the g-th record, and the returned list has one
\* group per record of the table, also when a group's candidate list is empty
\* and when every key attribute is skipped as missing.
OneGroupPerRecord ==
    fn \in GroupBuilders =>
        /\ Len(results) = ri
        /\ \A g \in DOMAIN results : results[g][1] = data[g].cifa_number
        /\ pc = "returned" =>
              /\ Len(returned) = Len(data)
              /\ \A g \in DOMAIN data : returned[g][1] = data[g].cifa_number

\* a builder has returned a group with no candidate between two groups that
\* have some: its anchor has no part number to compare
OneGroupPerRecordWitness ==
    /\ pc = "returned"
    /\ fn \in GroupBuilders
    /\ PresentKeys # {}
    /\ Len(returned) = 3
    /\ returned[1][2] # <<>>
    /\ returned[2][2] = <<>>
    /\ returned[3][2] # <<>>

\* the key columns the table has, in the order asked for
RemainingKeys ==
    LET Present(c) == c \in columns IN SelectSeq(key_columns, Present)

\* C14 (as claimed): when a key attribute is absent from the table, both
\* group builders skip it with a logged warning and return the groups that the
\* remaining key attributes alone give.
MissingKeyLogged ==
    (fn \in GroupBuilders /\ pc = "returned" /\ data # <<>>) =>
        /\ \A k \in Range(key_columns) \ columns : k \in Range(log)
        /\ returned = IF fn = "group_similar_records"
                      THEN GroupSimilarRecords(data, RemainingKeys, columns, threshold)
                      ELSE CompareGroup(data, data, RemainingKeys, columns, threshold)

----------------------------------------------------------------------------
(* The parallel coordinator, parallel.py:29-86, on a multiprocessing Pool *)

\* largest num_chunks of parallel_match
MaxChunks == 4
\* largest num_processes of parallel_grouping
MaxProcesses == 2
\* largest number of rows of the small list handed to parallel_match
MaxListRows == 3

\* np.array_split(small_list, num_chunks): contiguous chunks, the first
\* len % num_chunks of them one row longer than the others (empty chunks when
\* there are fewer rows than chunks)
ArraySplitFloor(list, num_chunks) ==
    LET each == Len(list) \div num_chunks
    IN [k \in 1..num_chunks |-> SubSeq(list, (k - 1) * each + 1, k * each)]
ArraySplit(list, num_chunks) ==
    LET each == Len(list) \div num_chunks
        extras == Len(list) % num_chunks
        Size(k) == IF k <= extras THEN each + 1 ELSE each
        First(k) == (k - 1) * each + (IF k - 1 <= extras THEN k - 1 ELSE extras) + 1
    IN [k \in 1..num_chunks |-> SubSeq(list, First(k), First(k) + Size(k) - 1)]

\* data['mfg_part_number'].str[:3]: the first 3 characters, NaN for a missing cell
Prefix(part_number) ==
    IF part_number = NoText THEN NoText
    ELSE SubSeq(part_number, 1, IF Len(part_number) < 3 THEN Len(part_number) ELSE 3)

\* lines 70-71: the copy of the table, with its blocking key column
WithPrefixGroup(table) ==
    [i \in DOMAIN table |->
        [cifa_number |-> table[i].cifa_number,
         mfg_part_number |-> table[i].mfg_part_number,
         item_description |-> table[i].item_description,
         prefix_group |-> Prefix(table[i].mfg_part_number)]]

\* line 71: data = data.copy() rebinds the local name to a copy; the caller's
\* table stays the frame that was passed in
CallerTableShared(table, copy) == copy
CallerTable(table, copy) == table

\* the keys of a groupby, in ascending order
RECURSIVE SortedKeys(_)
SortedKeys(keys) ==
    IF keys = {} THEN <<>>
    ELSE LET least == CHOOSE k \in keys : \A u \in keys \ {k} : StrLess(k, u)
         IN <<least>> \o SortedKeys(keys \ {least})

\* line 74: [group for _, group in data.groupby('prefix_group')]: one group per
\* key in ascending key order, rows in table order; groupby (dropna=True)
\* leaves out the rows whose key is NaN
GroupByPrefix(table) ==
    LET keys == SortedKeys({table[i].prefix_group : i \in DOMAIN table} \ {NoText})
    IN [k \in DOMAIN keys |->
           LET InGroup(row) == row.prefix_group = keys[k] IN SelectSeq(table, InGroup)]

\* lines 47 and 80: the argument list of pool.starmap holds every chunk / group
StarmapArgsTruncated(items, processes) ==
    SubSeq(items, 1, IF Len(items) < processes THEN Len(items) ELSE processes)
StarmapArgs(items, processes) == items

\* multiprocessing.pool.MapResult._set: the result of task i goes to slot i
StoreResultUnordered(value, statuses, i, result) ==
    [value EXCEPT ![Cardinality({k \in DOMAIN statuses : statuses[k] = "done"}) + 1] = result]
StoreResult(value, statuses, i, result) ==
    [value EXCEPT ![i] = result]

\* lines 48 and 83: pd.concat(results) / the flattened list: the slots' rows in
\* slot order
RECURSIVE Flatten(_)
Flatten(lists) ==
    IF lists = <<>> THEN <<>> ELSE Head(lists) \o Flatten(Tail(lists))

\* what task i computes: process_chunk(chunk, catalog) with its default
\* threshold, or compare_group(group, data, key_columns, threshold)
TaskResult(i) ==
    IF fn = "parallel_match"
    THEN ProcessChunk(tasks[i], data, DefaultThreshold)
    ELSE CompareGroup(tasks[i], data_copy, key_columns, columns \cup {"prefix_group"}, threshold)

\* pool.starmap's outcome once every task is over: the exception the pool
\* stored is raised out of the `with` block, else the slots are merged
JoinOutcomeSalvage(stored_failure, value) ==
    [pc |-> "returned", returned |-> Flatten(value)]
JoinOutcome(stored_failure, value) ==
    IF stored_failure # 0
    THEN [pc |-> "raised", returned |-> <<>>]
    ELSE [pc |-> "returned", returned |-> Flatten(value)]

\* parallel.py:41-47 / 66-80: split or block the input and hand the tasks to
\* the pool; without a 'mfg_part_number' column parallel_grouping returns []
ParallelStart ==
    /\ pc = "start"
    /\ IF fn = "parallel_grouping" /\ "mfg_part_number" \notin columns
       THEN /\ pc' = "returned"
            /\ returned' = <<>>
            /\ UNCHANGED <<data, data_copy, tasks, status, starts, slots>>
       ELSE /\ pc' = "pool"
            /\ data' = IF fn = "parallel_grouping"
                       THEN CallerTable(data, WithPrefixGroup(data)) ELSE data
            /\ data_copy' = IF fn = "parallel_grouping" THEN WithPrefixGroup(data) ELSE <<>>
            /\ tasks' = IF fn = "parallel_match"
                        THEN StarmapArgs(ArraySplit(small_list, num_workers), num_workers)
                        ELSE StarmapArgs(GroupByPrefix(WithPrefixGroup(data)), num_workers)
            /\ status' = [i \in DOMAIN tasks' |-> "pending"]
            /\ starts' = [i \in DOMAIN tasks' |-> 0]
            /\ slots' = [i \in DOMAIN tasks' |-> <<>>]
            /\ UNCHANGED returned
    /\ UNCHANGED <<parentVars, fn, small_list, key_columns, columns, threshold, ri,
                   results, log, num_workers, failure, overtaken>>

\* an idle worker process takes the next task off the pool's queue
WorkerStart ==
    /\ pc = "pool"
    /\ Cardinality({i \in DOMAIN status : status[i] = "running"}) < num_workers
    /\ \E i \in DOMAIN status :
         /\ status[i] = "pending"
         /\ \A j \in 1..(i - 1) : status[j] # "pending"
         /\ status' = [status EXCEPT ![i] = "running"]
         /\ starts' = [starts EXCEPT ![i] = @ + 1]
    /\ UNCHANGED <<pc, data, parentVars, matchVars, num_workers, data_copy, tasks, slots,
                   failure, overtaken>>

\* task i finishes while a task submitted before it is not over yet
Overtakes(i) == \E j \in 1..(i - 1) : status[j] \in {"pending", "running"}

\* a worker finishes its task: the result is stored, unless a task has failed
WorkerDone(i) ==
    /\ pc = "pool"
    /\ status[i] = "running"
    /\ status' = [status EXCEPT ![i] = "done"]
    /\ slots' = IF failure = 0 THEN StoreResult(slots, status, i, TaskResult(i)) ELSE slots
    /\ overtaken' = (overtaken \/ Overtakes(i))
    /\ UNCHANGED <<pc, data, parentVars, matchVars, num_workers, data_copy, tasks, starts,
                   failure>>

\* a worker's task raises: the pool stores the first exception only
WorkerRaise(i) ==
    /\ pc = "pool"
    /\ status[i] = "running"
    /\ status' = [status EXCEPT ![i] = "raised"]
    /\ failure' = IF failure = 0 THEN i ELSE failure
    /\ overtaken' = (overtaken \/ Overtakes(i))
    /\ UNCHANGED <<pc, data, parentVars, matchVars, num_workers, data_copy, tasks, starts,
                   slots>>

\* multiprocessing.pool.MapResult: the result is ready when no task is left
ReadyEarly(statuses) ==
    \E i \in DOMAIN statuses : statuses[i] \in {"done", "raised"}
Ready(statuses) ==
    \A i \in DOMAIN statuses : statuses[i] \in {"done", "raised"}

\* every task is over: starmap returns or raises, and the function with it
PoolJoin ==
    /\ pc = "pool"
    /\ Ready(status)
    /\ pc' = JoinOutcome(failure, slots).pc
    /\ returned' = JoinOutcome(failure, slots).returned
    /\ results' = IF failure = 0 THEN slots ELSE results
    /\ UNCHANGED <<data, parentVars, fn, small_list, key_columns, columns, threshold, ri,
                   log, poolVars>>

BlockPartNumbers == {NoText, <<>>, S_AB, S_ABC, S_ABC1}
ListPartNumbers == {S_AB, S_ABC, S_ABC1}

ParallelLists ==
    UNION {[1..n -> [mfg_part_number : ListPartNumbers, item_description : {D_R}]] :
              n \in 0..MaxListRows}

ParallelCatalogs == TextTables(CatalogRows, {NoText, S_ABC, S_ABC1}, {D_PQ})

ParallelKeyColumnLists ==
    {<<"mfg_part_number">>, <<"item_description", "mfg_part_number">>}

InitParallel ==
    /\ pc = "start"
    /\ fn \in {"parallel_match", "parallel_grouping"}
    /\ IF fn = "parallel_match"
       THEN /\ small_list \in ParallelLists
            /\ data \in ParallelCatalogs
            /\ columns = TextColumns
            /\ key_columns = <<>>
            /\ threshold = DefaultThreshold
            /\ num_workers \in 1..MaxChunks
       ELSE /\ small_list = <<>>
            /\ columns \in {TextColumns, TextColumns \ {"mfg_part_number"}}
            /\ data \in TextTables(BuilderRows,
                                   IF "mfg_part_number" \in columns THEN BlockPartNumbers
                                   ELSE {NoText},
                                   {D_PQ})
            /\ key_columns \in ParallelKeyColumnLists
            /\ threshold \in Thresholds
            /\ num_workers \in 1..MaxProcesses
    /\ ri = 0
    /\ results = <<>>
    /\ log = <<>>
    /\ returned = <<>>
    /\ data_copy = <<>>
    /\ tasks = <<>>
    /\ status = <<>>
    /\ starts = <<>>
    /\ slots = <<>>
    /\ failure = 0
    /\ overtaken = FALSE
    /\ ParentIdle

NextParallel ==
    \/ ParallelStart
    \/ WorkerStart
    \/ \E i \in DOMAIN status : WorkerDone(i)
    \/ \E i \in DOMAIN status : WorkerRaise(i)
    \/ PoolJoin

SpecParallel == InitParallel /\ [][NextParallel]_vars

\* the jobs whose completion is followed: every number of rows, chunks, blocks
\* and workers of InitParallel, on fewer cell values
CompletionLists ==
    {[i \in 1..n |-> [mfg_part_number |-> S_ABC, item_description |-> D_R]] :
        n \in 0..MaxListRows}

InitCompletion ==
    /\ InitParallel
    /\ IF fn = "parallel_match"
       THEN /\ small_list \in CompletionLists
            /\ data \in TextTables(CatalogRows, {S_ABC, S_ABC1}, {D_PQ})
       ELSE /\ \A i \in DOMAIN data : data[i].mfg_part_number \in {NoText, S_AB, S_ABC}
            /\ key_columns = <<"mfg_part_number">>
            /\ threshold = DefaultThreshold

\* the pool under fair scheduling: the caller and the pool go on when they
\* can, an idle worker takes the next task, and a worker that runs a task ends
\* it, by completing or by raising (the loops of process_chunk and
\* compare_group run over finite tables)
SpecParallelFair ==
    /\ InitCompletion
    /\ [][NextParallel]_vars
    /\ WF_vars(ParallelStart)
    /\ WF_vars(WorkerStart)
    /\ WF_vars(\E i \in DOMAIN status : WorkerRaise(i) \/ WorkerDone(i))
    /\ WF_vars(PoolJoin)

----------------------------------------------------------------------------
(* Properties of the parallel coordinator *)

\* a list of rows as a multiset
BagOf(list) == [x \in Range(list) |-> Cardinality({i \in DOMAIN list : list[i] = x})]

\* the (anchor id, candidate id, score) triples of a list of groups
Triples(groups) ==
    UNION {{<<groups[g][1], groups[g][2][m][1], groups[g][2][m][2]>> :
               m \in DOMAIN groups[g][2]} : g \in DOMAIN groups}

Sum(lengths) ==
    LET RECURSIVE Upto(_)
        Upto(n) == IF n = 0 THEN 0 ELSE lengths[n] + Upto(n - 1)
    IN Upto(Len(lengths))

\* the blocks of the table, whatever the pool does with them
Blocks == GroupByPrefix(WithPrefixGroup(data))

\* C2 (as claimed): the blocking step of parallel_grouping is a total and
\* disjoint partition: every record of the table is in exactly one block, and
\* the block sizes add up to the number of records.
BlockingTotality ==
    (fn = "parallel_grouping" /\ pc = "pool") =>
        /\ \A i \in DOMAIN data :
              Cardinality({<<b, r>> \in (DOMAIN tasks) \X (DOMAIN data) :
                              /\ r \in DOMAIN tasks[b]
                              /\ tasks[b][r].cifa_number = data[i].cifa_number}) = 1
        /\ Sum([b \in DOMAIN tasks |-> Len(tasks[b])]) = Len(data)

\* C3: whatever the number of chunks, parallel_match returns the multiset of
\* result rows that a single chunk holding the whole small list gives; no row's
\* matches are lost or duplicated.
MatchShardingInvariance ==
    (fn = "parallel_match" /\ pc = "returned") =>
        BagOf(returned) = BagOf(ProcessChunk(ArraySplit(small_list, 1)[1], data, DefaultThreshold))

\* more chunks than rows: some chunk is empty, and the rows that match are all
\* in the result
MatchShardingWitness ==
    /\ fn = "parallel_match" /\ pc = "returned"
    /\ num_workers > Len(small_list)
    /\ Len(small_list) >= 2
    /\ \A i \in DOMAIN small_list : \E r \in DOMAIN returned :
          returned[r].input_part_number = small_list[i].mfg_part_number
    /\ \E i, j \in DOMAIN small_list :
          small_list[i].mfg_part_number # small_list[j].mfg_part_number

\* C4: whatever the number of worker processes, and whatever the order in
\* which the blocks are run, parallel_grouping returns the same set of
\* (anchor id, candidate id, score) triples: those of the blocks' groups.
GroupingShardingInvariance ==
    (fn = "parallel_grouping" /\ pc = "returned" /\ "mfg_part_number" \in columns) =>
        Triples(returned) =
           UNION {Triples(CompareGroup(Blocks[b], WithPrefixGroup(data), key_columns,
                                       columns \cup {"prefix_group"}, threshold)) :
                     b \in DOMAIN Blocks}

\* more blocks than worker processes, run out of submission order
GroupingShardingWitness ==
    /\ fn = "parallel_grouping" /\ pc = "returned"
    /\ Len(tasks) > num_workers
    /\ overtaken
    /\ \A b \in DOMAIN tasks : \E g \in DOMAIN returned :
          returned[g][1] = tasks[b][1].cifa_number /\ returned[g][2] # <<>>

\* C9: a task is started at most once, and once a task has raised the job
\* returns nothing: it ends raising, without the results of the tasks that
\* completed.
FailFast ==
    /\ \A i \in DOMAIN status : starts[i] <= 1
    /\ (\E i \in DOMAIN status : status[i] = "raised") =>
          /\ returned = <<>>
          /\ failure \in {i \in DOMAIN status : status[i] = "raised"}
          /\ pc \in {"pool", "raised"}
    /\ pc = "raised" => \E i \in DOMAIN status : status[i] = "raised"

\* the job has raised although a task had completed with result rows
FailFastWitness ==
    /\ pc = "raised"
    /\ returned = <<>>
    /\ \E i, j \in DOMAIN status :
          /\ status[i] = "done" /\ slots[i] # <<>>
          /\ status[j] = "raised"
          /\ starts[i] = 1 /\ starts[j] = 1

\* C10: the result of parallel_match lists the result rows of chunk 0, then of
\* chunk 1, and so on, whatever the order in which the tasks finished; the
\* chunks being contiguous, the rows are in the order of the rows of the small
\* list.
OrderedMerge ==
    (fn = "parallel_match" /\ pc = "returned") =>
        /\ Flatten(tasks) = small_list
        /\ returned = Flatten([k \in DOMAIN tasks |->
                                  ProcessChunk(tasks[k], data, DefaultThreshold)])
        /\ returned = Flatten([i \in DOMAIN small_list |->
                                  ChunkRow(small_list[i], data, DefaultThreshold)])

\* a later chunk finished before an earlier one, both with result rows, and
\* the rows of the earlier chunk still come first
OrderedMergeWitness ==
    /\ fn = "parallel_match" /\ pc = "returned"
    /\ overtaken
    /\ Len(tasks) >= 2
    /\ slots[1] # <<>> /\ slots[2] # <<>>
    /\ slots[1] # slots[2]
    /\ returned[1] = slots[1][1]

\* C20: during and after a parallel job the catalog, the small list and the
\* caller's table are as they were (the blocking key column is added to the
\* private copy only), and a task that completes stores the result that its
\* own shard or block and the table give, whatever the other workers have
\* done, in its own slot, leaving every other slot as it was.
NoSharedMutableState ==
    [][/\ data' = data
       /\ small_list' = small_list
       /\ columns' = columns
       /\ \A i \in DOMAIN slots \cap DOMAIN slots' :
             IF i \in DOMAIN status /\ status[i] = "running" /\ status'[i] = "done"
                /\ failure = 0
             THEN slots'[i] =
                    IF fn = "parallel_match"
                    THEN ProcessChunk(tasks[i], data, DefaultThreshold)
                    ELSE CompareGroup(tasks[i], WithPrefixGroup(data), key_columns,
                                      columns \cup {"prefix_group"}, threshold)
             ELSE slots'[i] = slots[i]]_vars

\* parallel_grouping has returned the groups of several blocks that finished
\* out of order, and the caller's table has no blocking key column while the
\* private copy has one
NoSharedMutableStateWitness ==
    /\ fn = "parallel_grouping" /\ pc = "returned"
    /\ overtaken
    /\ Len(tasks) >= 2
    /\ \A i \in DOMAIN slots : slots[i] # <<>>
    /\ \A i \in DOMAIN data :
          /\ "prefix_group" \notin DOMAIN data[i]
          /\ "prefix_group" \in DOMAIN data_copy[i]

\* C21: under fair scheduling every parallel job ends, either returning or
\* raising; nothing is returned while a task is pending or running (the join
\* barrier), a job that has returned has run every task exactly once, and a
\* job raises only if a task has raised.
JobCompletion ==
    /\ <>(pc \in {"returned", "raised"})
    /\ [](/\ pc \in {"start", "pool", "returned", "raised"}
          /\ pc \in {"start", "pool"} => returned = <<>>
          /\ pc = "returned" =>
                \A i \in DOMAIN status : status[i] = "done" /\ starts[i] = 1
          /\ pc = "raised" =>
                /\ \E i \in DOMAIN status : status[i] = "raised"
                /\ \A i \in DOMAIN status :
                      status[i] \in {"done", "raised"} /\ starts[i] = 1)

\* a job of several tasks has returned its merged result after every task was
\* run once, some of them out of submission order
JobCompletionWitness ==
    /\ pc = "returned"
    /\ Len(tasks) >= 2
    /\ overtaken
    /\ returned # <<>>
    /\ \A i \in DOMAIN status : status[i] = "done" /\ starts[i] = 1

\* the blocking key of the record with cifa number c
KeyOf(c) == Prefix(data[PositionOf(c)].mfg_part_number)

\* C11 (as claimed): in every group returned by parallel_grouping, every
\* candidate id belongs to a record with the blocking key of the group's
\* anchor; a record of another block is never a candidate of the anchor.
BlockRestrictedPool ==
    (fn = "parallel_grouping" /\ pc = "returned") =>
        \A g \in DOMAIN returned : \A m \in DOMAIN returned[g][2] :
            KeyOf(returned[g][2][m][1]) = KeyOf(returned[g][1])

\* the blocks that hold the record at position i of the table
BlocksOf(i) ==
    {b \in DOMAIN tasks : \E r \in DOMAIN tasks[b] :
        tasks[b][r].cifa_number = data[i].cifa_number}

\* a blocking key that is neither undefined nor empty
ProperKey(i) == Prefix(data[i].mfg_part_number) \notin {NoText, <<>>}

\* C15 (as claimed): every record is in a block; two records are in the same
\* block exactly when their blocking keys are equal and non-empty; a record
\* whose key is empty or undefined is alone in its block.
BlockFormation ==
    (fn = "parallel_grouping" /\ pc = "pool") =>
        /\ \A i \in DOMAIN data : BlocksOf(i) # {}
        /\ \A i, j \in DOMAIN data :
              i # j =>
                 ((BlocksOf(i) \cap BlocksOf(j) # {}) <=>
                     (/\ ProperKey(i)
                      /\ Prefix(data[i].mfg_part_number) = Prefix(data[j].mfg_part_number)))

----------------------------------------------------------------------------
(* preprocess_data, ingest.py:48-66 *)

\* largest number of rows of the table handed to preprocess_data
MaxIngestRows == 3

StatusCodes == {"active", "Inactive", "inactive", "NaN"}

StatusColumns == {"cifa_number", "mfg_part_number", "inventory_item_status_code"}

\* the tables with and without an 'inventory_item_status_code' column; the row
\* at position i carries cifa number TextCifa(i)
StatusTables(cols) ==
    UNION {{t \in [1..n -> IF "inventory_item_status_code" \in cols
                            THEN [cifa_number : {TextCifa(i) : i \in 1..n},
                                  mfg_part_number : {S_AB, S_ABC},
                                  inventory_item_status_code : StatusCodes]
                            ELSE [cifa_number : {TextCifa(i) : i \in 1..n},
                                  mfg_part_number : {S_AB, S_ABC}]] :
               \A i \in 1..n : t[i].cifa_number = TextCifa(i)} : n \in 0..MaxIngestRows}

\* line 61: data['inventory_item_status_code'] != 'Inactive', true of a
\* missing status as well
NotInactiveFolded(row) ==
    row.inventory_item_status_code \notin {"Inactive", "inactive"}
NotInactive(row) == row.inventory_item_status_code # "Inactive"

InitIngest ==
    /\ pc = "start"
    /\ fn = "preprocess_data"
    /\ columns \in {StatusColumns, StatusColumns \ {"inventory_item_status_code"}}
    /\ data \in StatusTables(columns)
    /\ small_list = <<>>
    /\ key_columns = <<>>
    /\ threshold = DefaultThreshold
    /\ ri = 0
    /\ results = <<>>
    /\ log = <<>>
    /\ returned = <<>>
    /\ ParentIdle
    /\ PoolIdle

\* preprocess_data(data): the rows that are not 'Inactive' when the table has
\* the status column, else a warning and the table as it is
PreprocessData ==
    /\ pc = "start" /\ fn = "preprocess_data"
    /\ pc' = "returned"
    /\ IF "inventory_item_status_code" \in columns
       THEN /\ returned' = SelectSeq(data, NotInactive)
            /\ log' = log
       ELSE /\ returned' = data
            /\ log' = Append(log, "inventory_item_status_code")
    /\ UNCHANGED <<data, parentVars, poolVars, fn, small_list, key_columns, columns, threshold,
                   ri, results>>

NextIngest == PreprocessData

SpecIngest == InitIngest /\ [][NextIngest]_vars

\* the positions of the rows that are not 'Inactive'
ActivePositions ==
    {i \in DOMAIN data : data[i].inventory_item_status_code # "Inactive"}

\* C16: with an inventory_item_status_code column the result of preprocess_data
\* holds exactly the rows whose status is not 'Inactive', in their original
\* order and unchanged; without the column it is the table, all rows unchanged.
FiltersInactive ==
    (fn = "preprocess_data" /\ pc = "returned") =>
        IF "inventory_item_status_code" \in columns
        THEN /\ Len(returned) = Cardinality(ActivePositions)
             /\ \A i \in ActivePositions :
                   returned[Cardinality({j \in ActivePositions : j <= i})] = data[i]
        ELSE returned = data

\* an 'Inactive' row between an 'inactive' row and a row without status has
\* been dropped, and the two others are returned in their order
FiltersInactiveWitness ==
    /\ fn = "preprocess_data" /\ pc = "returned"
    /\ "inventory_item_status_code" \in columns
    /\ Len(data) = 3
    /\ data[1].inventory_item_status_code = "inactive"
    /\ data[2].inventory_item_status_code = "Inactive"
    /\ data[3].inventory_item_status_code = "NaN"
    /\ returned = <<data[1], data[3]>>

----------------------------------------------------------------------------
(* The matching functions on tables with one row more than the shortlist of  *)
(* process.extract holds (limit=10 at matching.py:44, limit=5 at 129, 171    *)
(* and 204)                                                                  *)

\* largest number of rows of a table that differ from its other rows
MaxOddRows == 1

\* the part number and description of most rows, and of the rows that differ
CommonCells == [mfg_part_number |-> S_ABC, item_description |-> D_PQ]
OddCells ==
    {[mfg_part_number |-> S_ABC1, item_description |-> D_PQ],
     [mfg_part_number |-> S_ABC, item_description |-> D_R],
     [mfg_part_number |-> NoText, item_description |-> D_PQ]}

\* the tables of n rows, at most MaxOddRows of them odd
LongTables(n) ==
    UNION {{[i \in 1..n |->
                LET cells == IF i \in odd THEN kind[i] ELSE CommonCells
                IN [cifa_number |-> TextCifa(i),
                    mfg_part_number |-> cells.mfg_part_number,
                    item_description |-> cells.item_description]] :
               kind \in [odd -> OddCells]} :
              odd \in {o \in SUBSET (1..n) : Cardinality(o) <= MaxOddRows}}

ShortlistKeyColumnLists ==
    {<<"mfg_part_number">>, <<"mfg_part_number", "item_description">>}

ShortlistSmallLists ==
    UNION {[1..n -> [mfg_part_number : {S_ABC, S_ABC1}, item_description : {D_R}]] :
              n \in 1..MaxRows}

InitShortlist ==
    /\ pc = "loop"
    /\ fn \in GroupBuilders \cup CatalogMatchers
    /\ IF fn \in GroupBuilders
       THEN /\ data \in LongTables((IF fn = "group_similar_records"
                                     THEN GroupLimit ELSE CompareLimit) + 1)
            /\ small_list = <<>>
            /\ key_columns \in ShortlistKeyColumnLists
       ELSE /\ data \in LongTables(MatchLimit + 1)
            /\ small_list \in ShortlistSmallLists
            /\ key_columns = <<>>
    /\ columns = TextColumns
    /\ threshold \in Thresholds
    /\ ri = 0
    /\ results = <<>>
    /\ log = <<>>
    /\ returned = <<>>
    /\ ParentIdle
    /\ PoolIdle

SpecShortlist == InitShortlist /\ [][NextGroups]_vars

\* the positions of the rows of the table that are among the K best for the
\* query on the key attribute k and meet the threshold; a row is outranked by
\* the rows with a higher score and by those with its score further up in the
\* table, and a row without a value is never a choice
ShortlistOf(scorer, K, query, k) ==
    IF query = NoText THEN {}
    ELSE LET scored == {<<j, Score(scorer, query, data[j][k])>> :
                           j \in {i \in DOMAIN data : data[i][k] # NoText}}
             Outranking(c) == {j \in scored :
                                  \/ j[2] > c[2]
                                  \/ j[2] = c[2] /\ j[1] < c[1]}
         IN {c[1] : c \in {x \in scored :
                              /\ Cardinality(Outranking(x)) < K
                              /\ x[2] >= Cutoff(threshold)}}

\* the positions in the table of the candidates of a group
CandidatePositions(group) ==
    {PositionOf(group[2][m][1]) : m \in DOMAIN group[2]}

\* C19: only the K best candidates per key attribute are considered (K = 10 in
\* group_similar_records, 5 in compare_group and in the catalog matching): a
\* record is a candidate of a returned group exactly when, on some key
\* attribute, it is among the K best of the table and meets the threshold, so
\* a record that meets the threshold but is outside the K best on every
\* attribute is absent; a group has at most K candidates per key attribute,
\* and a row of the small list at most K result rows.
TopKShortlist ==
    pc = "returned" =>
      /\ fn \in GroupBuilders =>
           \A g \in DOMAIN returned :
              /\ Len(returned[g][2]) <= LimitOf(fn) * Cardinality(PresentKeys)
              /\ CandidatePositions(returned[g]) =
                    UNION {ShortlistOf(ScorerOf(fn), LimitOf(fn), data[g][k], k) :
                              k \in PresentKeys}
      /\ fn \in CatalogMatchers =>
           /\ Len(returned) <= MatchLimit * Len(small_list)
           /\ \A i \in DOMAIN small_list :
                 LET query == small_list[i].mfg_part_number
                     listed == IF fn = "fuzzy_match_with_scores"
                               THEN SmallListDescriptions(small_list) ELSE {}
                 IN {PositionOf(returned[r].cifa_number) :
                        r \in {x \in DOMAIN returned : returned[x].input_part_number = query}}
                    = {c \in ShortlistOf("token_sort_ratio", MatchLimit, query,
                                         "mfg_part_number") :
                          data[c].item_description \notin listed}

\* a group holds K candidates, and a record that meets the threshold on every
\* key attribute, being outside the K best on each, is not one of them
TopKShortlistWitness ==
    /\ pc = "returned"
    /\ fn \in GroupBuilders
    /\ Cardinality(PresentKeys) = 2
    /\ \E g, c \in DOMAIN data :
          /\ Len(returned[g][2]) = LimitOf(fn)
          /\ c \notin CandidatePositions(returned[g])
          /\ \A k \in PresentKeys :
                /\ Score(ScorerOf(fn), data[g][k], data[c][k]) >= Cutoff(threshold)
                /\ c \notin ShortlistOf(ScorerOf(fn), LimitOf(fn), data[g][k], k)

====
